---------------------------- MODULE Spec2Model ----------------------------
(***************************************************************************)
(* Model of the help-bubble backend: the keyword router of backend/main.py *)
(* (find_best_context) and the answer scorer of backend/evaluate.py        *)
(* (QAEvaluator.normalize_answer, exact_match_score, f1_score,             *)
(* evaluate_sample, evaluate_dataset).                                     *)
(*                                                                         *)
(* A Python str is modelled as a sequence of one-character strings, so     *)
(* that lower-casing, substring search, punctuation removal, the article   *)
(* regex and str.split are computed character by character as the code     *)
(* computes them.  A Python float is modelled as a binary floating-point   *)
(* number with FloatBits bits of mantissa, written as the fraction         *)
(* <<numerator, denominator>> in lowest terms that it equals; every        *)
(* arithmetic operation on floats rounds its exact result to the nearest   *)
(* such number, ties to even, as IEEE 754 arithmetic does.  CPython keeps  *)
(* 53 bits; the model keeps fewer so that the integers of TLC suffice.     *)
(***************************************************************************)
EXTENDS Integers, Sequences, FiniteSets, TLC

VARIABLES
    \* ---- find_best_context (backend/main.py) ----
    question,        \* the question argument
    nfrags,          \* number of fragments the question was assembled from
    router_pc,       \* "input" | "returned" | "raised"
    best_category,   \* local best_category of find_best_context ("" before the call)
    context_out,     \* the value find_best_context returned ("" before the call)
    \* ---- normalize_answer / exact_match_score / f1_score ----
    prediction,      \* the prediction argument (the argument s of normalize_answer)
    ground_truth,    \* the ground_truth argument
    npred, ntruth,   \* number of pieces each of the two was assembled from
    score_pc,        \* "input" | "normalized" | "scored"
    norm_out,        \* normalize_answer(prediction) as returned
    em_out,          \* exact_match_score(prediction, ground_truth) as returned
    f1_out,          \* f1_score(prediction, ground_truth) as returned
    \* ---- evaluate_dataset ----
    dataset,         \* the dataset argument: sequence of ground-truth answers
    eval_pc,         \* "input" | "loop" | "done"
    results,         \* local list results
    total_em, total_f1, total_time, successful_predictions,
    evaluation_results,  \* the returned dict (NotReturned before the return)
    model_calls,     \* the outcomes of the calls of self.qa_pipeline so far
    \* ---- evaluate_sample called on its own ----
    sample_record,   \* the dict evaluate_sample returned (NoRecord before the return)
    \* ---- ask_question (backend/main.py) ----
    model_loaded,    \* whether the global qa_pipeline holds a model (is not None)
    request_context, \* request.context: <<>> for None, <<c>> for the string c
    ask_pc,          \* "input" | "responded"
    ask_model_call,  \* <<>> if ask_question did not call the model, else <<outcome>>
    ask_category,    \* local category of ask_question ("" while unset)
    response         \* what the request was answered with (NoResponse before)

routerVars == <<question, nfrags, router_pc, best_category, context_out>>
scoreVars  == <<prediction, ground_truth, npred, ntruth, score_pc, norm_out, em_out, f1_out>>
evalVars   == <<dataset, eval_pc, results, total_em, total_f1, total_time,
                successful_predictions, evaluation_results, model_calls>>
sampleVars == <<sample_record>>
askVars    == <<model_loaded, request_context, ask_pc, ask_model_call, ask_category, response>>
vars == <<routerVars, scoreVars, evalVars, sampleVars, askVars>>

---------------------------------------------------------------------------
(* Characters and strings *)

UpperCase == <<"A", "B", "C", "D", "E", "F", "G", "H", "I", "J", "K", "L", "M", "N", "O", "P", "Q", "R", "S", "T", "U", "V", "W", "X", "Y", "Z">>
LowerCase == <<"a", "b", "c", "d", "e", "f", "g", "h", "i", "j", "k", "l", "m", "n", "o", "p", "q", "r", "s", "t", "u", "v", "w", "x", "y", "z">>

\* str.lower() on one character
LowerChar(ch) ==
    IF \E i \in 1..Len(UpperCase) : UpperCase[i] = ch
    THEN LowerCase[CHOOSE i \in 1..Len(UpperCase) : UpperCase[i] = ch]
    ELSE ch

\* a plausible slip: no case folding at all
LowerIdentity(s) == s

\* str.lower()
Lower(s) == [i \in 1..Len(s) |-> LowerChar(s[i])]

\* the Python test `keyword in text` on strings: substring containment
Contains(text, keyword) ==
    \E i \in 0..(Len(text) - Len(keyword)) :
        SubSeq(text, i + 1, i + Len(keyword)) = keyword

---------------------------------------------------------------------------
(* backend/main.py: the knowledge base and the router *)

\* dict iteration order of both ECOMMERCE_CONTEXTS and keywords
CategoryOrder == <<"returns", "shipping", "payment", "products", "account", "promotions">>

Categories == {CategoryOrder[i] : i \in 1..Len(CategoryOrder)}

ECOMMERCE_CONTEXTS ==
    [category \in Categories |->
    IF category = "returns" THEN
        "Our return policy allows customers to return items within 30 days of purchase. Items must be in original condition with tags attached. Electronics must include all original accessories and packaging. Refunds are processed within 5-7 business days after we receive the returned item. To initiate a return, log into your account and click 'Return Item' next to your order."
    ELSE IF category = "shipping" THEN
        "We offer free standard shipping on orders over $50. Standard shipping takes 3-5 business days. Express shipping (1-2 business days) costs $15.99. International shipping is available to most countries and takes 7-14 business days. You can track your order using the tracking number sent to your email after shipment."
    ELSE IF category = "payment" THEN
        "We accept all major credit cards, PayPal, Apple Pay, and Google Pay. Payment is processed securely through our encrypted checkout system. For orders over $500, we may require additional verification. If your payment fails, please check your card details and ensure sufficient funds are available."
    ELSE IF category = "products" THEN
        "All our products come with a 1-year manufacturer warranty. Electronic items include a 30-day satisfaction guarantee. Product specifications and compatibility information can be found on each product page. If you need help choosing the right product, our chat support is available 24/7."
    ELSE IF category = "account" THEN
        "You can create an account during checkout or from our homepage. Account benefits include order tracking, faster checkout, exclusive deals, and order history. If you forgot your password, click 'Forgot Password' on the login page. To update your information, go to 'My Account' after logging in."
    ELSE
        "We regularly offer seasonal sales, flash deals, and newsletter subscriber discounts. Sign up for our newsletter to receive exclusive 10% off your first order. Student discounts are available with valid .edu email addresses. Check our homepage for current promotions and coupon codes."]

\* the local dict keywords of find_best_context
keywords ==
    [category \in Categories |->
    IF category = "returns" THEN
        << <<"r", "e", "t", "u", "r", "n">>,
           <<"r", "e", "f", "u", "n", "d">>,
           <<"e", "x", "c", "h", "a", "n", "g", "e">>,
           <<"s", "e", "n", "d", " ", "b", "a", "c", "k">>,
           <<"m", "o", "n", "e", "y", " ", "b", "a", "c", "k">> >>
    ELSE IF category = "shipping" THEN
        << <<"s", "h", "i", "p">>,
           <<"d", "e", "l", "i", "v", "e", "r", "y">>,
           <<"t", "r", "a", "c", "k">>,
           <<"a", "r", "r", "i", "v", "e">>,
           <<"s", "h", "i", "p", "p", "i", "n", "g">>,
           <<"w", "h", "e", "n", " ", "w", "i", "l", "l">> >>
    ELSE IF category = "payment" THEN
        << <<"p", "a", "y", "m", "e", "n", "t">>,
           <<"p", "a", "y">>,
           <<"c", "a", "r", "d">>,
           <<"p", "a", "y", "p", "a", "l">>,
           <<"c", "h", "e", "c", "k", "o", "u", "t">>,
           <<"b", "i", "l", "l", "i", "n", "g">> >>
    ELSE IF category = "products" THEN
        << <<"w", "a", "r", "r", "a", "n", "t", "y">>,
           <<"g", "u", "a", "r", "a", "n", "t", "e", "e">>,
           <<"s", "p", "e", "c", "i", "f", "i", "c", "a", "t", "i", "o", "n">>,
           <<"c", "o", "m", "p", "a", "t", "i", "b", "l", "e">>,
           <<"f", "e", "a", "t", "u", "r", "e">> >>
    ELSE IF category = "account" THEN
        << <<"a", "c", "c", "o", "u", "n", "t">>,
           <<"l", "o", "g", "i", "n">>,
           <<"p", "a", "s", "s", "w", "o", "r", "d">>,
           <<"p", "r", "o", "f", "i", "l", "e">>,
           <<"r", "e", "g", "i", "s", "t", "e", "r">>,
           <<"s", "i", "g", "n", " ", "u", "p">> >>
    ELSE
        << <<"d", "i", "s", "c", "o", "u", "n", "t">>,
           <<"c", "o", "u", "p", "o", "n">>,
           <<"s", "a", "l", "e">>,
           <<"p", "r", "o", "m", "o">>,
           <<"d", "e", "a", "l">>,
           <<"o", "f", "f", "e", "r">> >>]

\* a plausible slip: only the first keyword of each list is counted
CategoryScoreFirstOnly(category, question_lower) ==
    IF Contains(question_lower, keywords[category][1]) THEN 1 ELSE 0

\* scores[category] = sum(1 for keyword in category_keywords if keyword in question_lower)
CategoryScore(category, question_lower) ==
    Cardinality({j \in 1..Len(keywords[category]) :
                    Contains(question_lower, keywords[category][j])})

\* the local dict scores, built in the order of keywords.items()
Scores(question_lower) ==
    [category \in Categories |-> CategoryScore(category, question_lower)]

RECURSIVE MaxValue(_, _, _)
\* max(scores.values())
MaxValue(scores, i, acc) ==
    IF i > Len(CategoryOrder) THEN acc
    ELSE MaxValue(scores, i + 1,
                  IF scores[CategoryOrder[i]] > acc THEN scores[CategoryOrder[i]] ELSE acc)

RECURSIVE MaxKeyLast(_, _, _)
\* a plausible slip: a later key replaces the current one on an equal score
MaxKeyLast(scores, i, acc) ==
    IF i > Len(CategoryOrder) THEN acc
    ELSE MaxKeyLast(scores, i + 1,
                    IF scores[CategoryOrder[i]] >= scores[acc] THEN CategoryOrder[i] ELSE acc)

RECURSIVE MaxKey(_, _, _)
\* max(scores, key=scores.get): the keys are visited in dict order and a later
\* key replaces the current one only when its score is strictly greater
MaxKey(scores, i, acc) ==
    IF i > Len(CategoryOrder) THEN acc
    ELSE MaxKey(scores, i + 1,
                IF scores[CategoryOrder[i]] > scores[acc] THEN CategoryOrder[i] ELSE acc)

\* a plausible slip: the default of get_fallback_answer, which is no key of
\* ECOMMERCE_CONTEXTS
BestCategoryGeneralDefault(scores) ==
    IF MaxValue(scores, 2, scores[CategoryOrder[1]]) > 0
    THEN MaxKey(scores, 2, CategoryOrder[1])
    ELSE "general"

\* a plausible slip: the default is the last category instead of "returns"
BestCategoryLastDefault(scores) ==
    IF MaxValue(scores, 2, scores[CategoryOrder[1]]) > 0
    THEN MaxKey(scores, 2, CategoryOrder[1])
    ELSE CategoryOrder[Len(CategoryOrder)]

\* best_category = max(scores, key=scores.get) if max(scores.values()) > 0 else "returns"
BestCategory(scores) ==
    IF MaxValue(scores, 2, scores[CategoryOrder[1]]) > 0
    THEN MaxKey(scores, 2, CategoryOrder[1])
    ELSE "returns"

\* find_best_context: the outcome of one call.  ECOMMERCE_CONTEXTS[best_category]
\* raises KeyError when best_category is no key of the dict.
find_best_context(q) ==
    LET best == BestCategory(Scores(Lower(q)))
    IN  IF best \in DOMAIN ECOMMERCE_CONTEXTS
        THEN [raised |-> FALSE, best_category |-> best, value |-> ECOMMERCE_CONTEXTS[best]]
        ELSE [raised |-> TRUE,  best_category |-> best, value |-> ""]

---------------------------------------------------------------------------
(* The router as a state machine: a question is assembled from fragments   *)
(* and find_best_context is called on it once.                             *)

\* at most this many fragments make up a question
MaxFrags == 3

\* the pieces questions are assembled from: keywords of every category, pieces
\* that form a keyword only across a fragment border ("ship" + "ping"), a
\* mixed-case keyword, a blank and a word that holds no keyword
QuestionFragments ==
    { <<"r", "e", "t", "u", "r", "n">>,
      <<"r", "e", "f", "u", "n", "d">>,
      <<"m", "o", "n", "e", "y", " ", "b", "a", "c", "k">>,
      <<"s", "h", "i", "p">>,
      <<"p", "i", "n", "g">>,
      <<"d", "e", "l", "i", "v", "e", "r", "y">>,
      <<"p", "a", "y">>,
      <<"p", "a", "l">>,
      <<"c", "a", "r", "d">>,
      <<"w", "a", "r", "r", "a", "n", "t", "y">>,
      <<"a", "c", "c", "o", "u", "n", "t">>,
      <<"s", "a", "l", "e">>,
      <<"d", "e", "a", "l">>,
      <<" ">>,
      <<"S", "h", "i", "p">>,
      <<"h", "e", "l", "l", "o">> }

RouterInit ==
    /\ question = <<>>
    /\ nfrags = 0
    /\ router_pc = "input"
    /\ best_category = ""
    /\ context_out = ""

\* the caller extends the question it is about to ask
AppendFragment(f) ==
    /\ router_pc = "input"
    /\ ask_pc = "input"
    /\ nfrags < MaxFrags
    /\ question' = question \o f
    /\ nfrags' = nfrags + 1
    /\ UNCHANGED <<router_pc, best_category, context_out>>
    /\ UNCHANGED <<scoreVars, evalVars, sampleVars, askVars>>

\* one call find_best_context(question)
CallFindBestContext ==
    /\ router_pc = "input"
    /\ LET r == find_best_context(question)
       IN  /\ router_pc' = IF r.raised THEN "raised" ELSE "returned"
           /\ best_category' = r.best_category
           /\ context_out' = r.value
    /\ UNCHANGED <<question, nfrags>>
    /\ UNCHANGED <<scoreVars, evalVars, sampleVars, askVars>>

NextRouter ==
    \/ \E f \in QuestionFragments : AppendFragment(f)
    \/ CallFindBestContext

---------------------------------------------------------------------------
(* backend/evaluate.py: QAEvaluator.normalize_answer *)

\* the grave accent U+0060, a character a TLA+ string literal cannot hold
GraveAccent == "grave"

\* string.punctuation
Punctuation == {"!", "\"", "#", "$", "%", "&", "'", "(", ")", "*", "+", ",", "-", ".", "/", ":", ";", "<", "=", ">", "?", "@", "[", "\\", "]", "^", "_", GraveAccent, "{", "|", "}", "~"}

Digits == {"0", "1", "2", "3", "4", "5", "6", "7", "8", "9"}

\* the characters str.split() and the regex class \s treat as whitespace
Whitespace == {" ", "\t", "\n", "\r", "\f"}

\* the regex class \w: letters, digits and the underscore
IsWordChar(ch) ==
    \/ \E i \in 1..Len(UpperCase) : UpperCase[i] = ch
    \/ \E i \in 1..Len(LowerCase) : LowerCase[i] = ch
    \/ ch \in Digits
    \/ ch = "_"

\* the regex assertion \b at offset p of text (between text[p] and text[p+1]):
\* exactly one of the two neighbours is a word character, the ends of the
\* text counting as non-word
WordBoundary(text, p) ==
    LET before == p >= 1 /\ IsWordChar(text[p])
        after  == p + 1 <= Len(text) /\ IsWordChar(text[p + 1])
    IN  before # after

\* the alternatives of (a|an|the), in the order the regex tries them
Articles == << <<"a">>, <<"a", "n">>, <<"t", "h", "e">> >>

\* the alternative of \b(a|an|the)\b that matches at index i of text, 0 if none
ArticleMatchAt(text, i) ==
    LET ok(k) == /\ i + Len(Articles[k]) - 1 <= Len(text)
                 /\ SubSeq(text, i, i + Len(Articles[k]) - 1) = Articles[k]
                 /\ WordBoundary(text, i - 1)
                 /\ WordBoundary(text, i + Len(Articles[k]) - 1)
    IN  IF ok(1) THEN 1 ELSE IF ok(2) THEN 2 ELSE IF ok(3) THEN 3 ELSE 0

RECURSIVE SubArticles(_, _)
\* re.sub scanning text from index i: leftmost non-overlapping matches are
\* replaced by one blank, every other character is copied
SubArticles(text, i) ==
    IF i > Len(text) THEN <<>>
    ELSE LET k == ArticleMatchAt(text, i)
         IN  IF k = 0 THEN <<text[i]>> \o SubArticles(text, i + 1)
             ELSE <<" ">> \o SubArticles(text, i + Len(Articles[k]))

\* a plausible slip: the articles are kept
remove_articles_none(text) == text

\* remove_articles: re.sub of the pattern \b(a|an|the)\b by one blank
remove_articles(text) == SubArticles(text, 1)

\* remove_punc: join of the characters ch of text with ch not in exclude
remove_punc(text) == SelectSeq(text, LAMBDA ch : ch \notin Punctuation)

RECURSIVE SplitFrom(_, _, _, _)
\* str.split() scanning text from index i; word is the token being read and
\* done the tokens already closed
SplitFrom(text, i, word, done) ==
    IF i > Len(text)
    THEN IF word = <<>> THEN done ELSE Append(done, word)
    ELSE IF text[i] \in Whitespace
         THEN SplitFrom(text, i + 1, <<>>, IF word = <<>> THEN done ELSE Append(done, word))
         ELSE SplitFrom(text, i + 1, Append(word, text[i]), done)

\* text.split(): the maximal runs of non-whitespace characters
Split(text) == SplitFrom(text, 1, <<>>, <<>>)

RECURSIVE Join(_)
\* " ".join(tokens)
Join(tokens) ==
    IF tokens = <<>> THEN <<>>
    ELSE IF Len(tokens) = 1 THEN tokens[1]
    ELSE tokens[1] \o <<" ">> \o Join(Tail(tokens))

\* white_space_fix: " ".join(text.split())
white_space_fix(text) == Join(Split(text))

\* a plausible slip: the articles are removed before the punctuation
normalize_answer_articles_first(s) ==
    white_space_fix(remove_punc(remove_articles(Lower(s))))

\* a plausible slip: the case is folded last
normalize_answer_lower_last(s) ==
    Lower(white_space_fix(remove_articles(remove_punc(s))))

\* return white_space_fix(remove_articles(remove_punc(lower(s))))
normalize_answer(s) ==
    white_space_fix(remove_articles(remove_punc(Lower(s))))

---------------------------------------------------------------------------
(* Fractions and floats *)

RECURSIVE GCD(_, _)
GCD(a, b) == IF b = 0 THEN a ELSE GCD(b, a % b)

\* n / d in lowest terms, d > 0
Frac(n, d) == LET g == GCD(n, d) IN <<n \div g, d \div g>>

FracAdd(a, b) == Frac(a[1] * b[2] + b[1] * a[2], a[2] * b[2])
FracMul(a, b) == Frac(a[1] * b[1], a[2] * b[2])
FracDiv(a, b) == Frac(a[1] * b[2], a[2] * b[1])
FracLeq(a, b) == a[1] * b[2] <= b[1] * a[2]

\* the bits of mantissa a float keeps
FloatBits == 9

RECURSIVE Normalise(_, _, _, _)
\* the float nearest to v, where m + r/d is floor and rest of v * 2^e: the
\* scaling by 2 goes on until the mantissa m has FloatBits bits, and then m is
\* rounded, a tie to the even mantissa
Normalise(m, r, d, e) ==
    IF m >= 2^(FloatBits - 1)
    THEN Frac(IF 2 * r > d \/ (2 * r = d /\ m % 2 = 1) THEN m + 1 ELSE m, 2^e)
    ELSE Normalise(2 * m + ((2 * r) \div d), (2 * r) % d, d, e + 1)

\* the float nearest to the fraction v, 0 <= v < 2^FloatBits
RoundValue(v) ==
    IF v[1] = 0 THEN <<0, 1>>
    ELSE Normalise(v[1] \div v[2], v[1] % v[2], v[2], 0)

\* the exact result f of an operation, rounded to a float (f is evaluated
\* once, as the element of a set)
RoundFloat(f) == CHOOSE x \in {RoundValue(v) : v \in {f}} : TRUE

\* x + y, x * y and x / y on floats
FloatAdd(a, b) == RoundFloat(FracAdd(a, b))
FloatMul(a, b) == RoundFloat(FracMul(a, b))
FloatDiv(a, b) == RoundFloat(FracDiv(a, b))

---------------------------------------------------------------------------
(* backend/evaluate.py: exact_match_score and f1_score *)

\* a plausible slip: the raw strings are compared
exact_match_score_raw(pred, truth) ==
    IF pred = truth THEN 1 ELSE 0

\* int(self.normalize_answer(prediction) == self.normalize_answer(ground_truth))
exact_match_score(pred, truth) ==
    IF normalize_answer(pred) = normalize_answer(truth) THEN 1 ELSE 0

\* collections.Counter(tokens): token -> number of occurrences
Counter(tokens) ==
    [w \in {tokens[i] : i \in 1..Len(tokens)} |->
        Cardinality({i \in 1..Len(tokens) : tokens[i] = w})]

\* a plausible slip: set intersection, every shared token counted once
CounterAndOnce(c1, c2) ==
    [w \in DOMAIN c1 \cap DOMAIN c2 |-> 1]

\* Counter & Counter: the minimum of the two counts, for the shared tokens
CounterAnd(c1, c2) ==
    [w \in DOMAIN c1 \cap DOMAIN c2 |-> IF c1[w] <= c2[w] THEN c1[w] ELSE c2[w]]

RECURSIVE SumOver(_, _)
SumOver(c, keys) ==
    IF keys = {} THEN 0
    ELSE LET w == CHOOSE x \in keys : TRUE
         IN  c[w] + SumOver(c, keys \ {w})

\* sum(counter.values())
SumValues(c) == SumOver(c, DOMAIN c)

\* a plausible slip: the parentheses of the last formula are dropped, so that
\* 2 * precision * recall / precision + recall is returned
f1_score_unparenthesised(pred, truth) ==
    LET pred_tokens  == Split(normalize_answer(pred))
        truth_tokens == Split(normalize_answer(truth))
    IN  IF Len(pred_tokens) = 0 \/ Len(truth_tokens) = 0
        THEN (IF pred_tokens = truth_tokens THEN <<1, 1>> ELSE <<0, 1>>)
        ELSE LET common_tokens == CounterAnd(Counter(pred_tokens), Counter(truth_tokens))
                 num_same == SumValues(common_tokens)
             IN  IF num_same = 0 THEN <<0, 1>>
                 ELSE LET precision == FloatDiv(<<num_same, 1>>, <<Len(pred_tokens), 1>>)
                          recall    == FloatDiv(<<num_same, 1>>, <<Len(truth_tokens), 1>>)
                      IN  FloatAdd(FloatDiv(FloatMul(FloatMul(<<2, 1>>, precision), recall), precision),
                                   recall)

\* a plausible slip: an empty token list scores 0 whatever the other list is
f1_score_empty_zero(pred, truth) ==
    LET pred_tokens  == Split(normalize_answer(pred))
        truth_tokens == Split(normalize_answer(truth))
    IN  IF Len(pred_tokens) = 0 \/ Len(truth_tokens) = 0
        THEN <<0, 1>>
        ELSE LET common_tokens == CounterAnd(Counter(pred_tokens), Counter(truth_tokens))
                 num_same == SumValues(common_tokens)
             IN  IF num_same = 0 THEN <<0, 1>>
                 ELSE LET precision == FloatDiv(<<num_same, 1>>, <<Len(pred_tokens), 1>>)
                          recall    == FloatDiv(<<num_same, 1>>, <<Len(truth_tokens), 1>>)
                      IN  FloatDiv(FloatMul(FloatMul(<<2, 1>>, precision), recall),
                                   FloatAdd(precision, recall))

\* f1_score: the value returned, an int (0 or 1) or a float
f1_score(pred, truth) ==
    LET pred_tokens  == Split(normalize_answer(pred))
        truth_tokens == Split(normalize_answer(truth))
    IN  IF Len(pred_tokens) = 0 \/ Len(truth_tokens) = 0
        THEN (IF pred_tokens = truth_tokens THEN <<1, 1>> ELSE <<0, 1>>)
        ELSE LET common_tokens == CounterAnd(Counter(pred_tokens), Counter(truth_tokens))
                 num_same == SumValues(common_tokens)
             IN  IF num_same = 0 THEN <<0, 1>>
                 ELSE LET precision == FloatDiv(<<num_same, 1>>, <<Len(pred_tokens), 1>>)
                          recall    == FloatDiv(<<num_same, 1>>, <<Len(truth_tokens), 1>>)
                      IN  FloatDiv(FloatMul(FloatMul(<<2, 1>>, precision), recall),
                                   FloatAdd(precision, recall))

---------------------------------------------------------------------------
(* normalize_answer as a state machine: a string is assembled character by *)
(* character and normalize_answer is called on it once.                    *)

\* at most this many characters are appended to the empty string
MaxLen == 5

\* the characters strings are assembled from: the letters of the articles,
\* an upper-case letter, another letter, a digit, a punctuation character
\* and two whitespace characters
NormalizeAlphabet == {"a", "n", "t", "h", "e", "T", "x", "1", "-", " ", "\t"}

\* the example of the test list: The Shipping costs $15.99!
ShippingCosts == <<"T", "h", "e", " ", "S", "h", "i", "p", "p", "i", "n", "g", " ", "c", "o", "s", "t", "s", " ", "$", "1", "5", ".", "9", "9", "!">>

NormalizeInit ==
    /\ \/ prediction = <<>> /\ npred = 0
       \/ prediction = ShippingCosts /\ npred = MaxLen
    /\ ground_truth = <<>>
    /\ ntruth = 0
    /\ score_pc = "input"
    /\ norm_out = <<>>
    /\ em_out = 0
    /\ f1_out = <<0, 1>>

AppendChar(ch) ==
    /\ score_pc = "input"
    /\ npred < MaxLen
    /\ prediction' = Append(prediction, ch)
    /\ npred' = npred + 1
    /\ UNCHANGED <<ground_truth, ntruth, score_pc, norm_out, em_out, f1_out>>
    /\ UNCHANGED <<routerVars, evalVars, sampleVars, askVars>>

\* one call normalize_answer(prediction)
CallNormalize ==
    /\ score_pc = "input"
    /\ norm_out' = normalize_answer(prediction)
    /\ score_pc' = "normalized"
    /\ UNCHANGED <<prediction, ground_truth, npred, ntruth, em_out, f1_out>>
    /\ UNCHANGED <<routerVars, evalVars, sampleVars, askVars>>

NextNormalize ==
    \/ \E ch \in NormalizeAlphabet : AppendChar(ch)
    \/ CallNormalize

---------------------------------------------------------------------------
(* exact_match_score and f1_score as a state machine: a prediction and a   *)
(* ground truth are assembled from pieces and scored once.                 *)

\* at most this many pieces make up a prediction, and a ground truth
MaxPredFrags == 3
MaxTruthFrags == 2

\* the pieces: an article, an upper-case article, a word, two words with a
\* blank before them and a punctuation character
ScoreFragments == { <<"t", "h", "e">>, <<"A">>, <<"x">>, <<" ", "x">>, <<" ", "n">>, <<"-">> }

ThirtyDays == <<"3", "0", " ", "d", "a", "y", "s">>
ThirtyDaysInWords == <<"t", "h", "i", "r", "t", "y", " ", "d", "a", "y", "s">>
TheExpressShipping == <<"t", "h", "e", " ", "e", "x", "p", "r", "e", "s", "s", " ", "s", "h", "i", "p", "p", "i", "n", "g">>
ExpressShipping == <<"e", "x", "p", "r", "e", "s", "s", " ", "s", "h", "i", "p", "p", "i", "n", "g">>

\* the pairs of the test list
ExamplePairs ==
    { <<ThirtyDays, ThirtyDays>>,
      <<ThirtyDays, ThirtyDaysInWords>>,
      <<TheExpressShipping, ExpressShipping>> }

ScoreInit ==
    /\ \/ prediction = <<>> /\ ground_truth = <<>> /\ npred = 0 /\ ntruth = 0
       \/ /\ \E pair \in ExamplePairs : prediction = pair[1] /\ ground_truth = pair[2]
          /\ npred = MaxPredFrags
          /\ ntruth = MaxTruthFrags
    /\ score_pc = "input"
    /\ norm_out = <<>>
    /\ em_out = 0
    /\ f1_out = <<0, 1>>

AppendPrediction(f) ==
    /\ score_pc = "input"
    /\ npred < MaxPredFrags
    /\ ntruth = 0
    /\ prediction' = prediction \o f
    /\ npred' = npred + 1
    /\ UNCHANGED <<ground_truth, ntruth, score_pc, norm_out, em_out, f1_out>>
    /\ UNCHANGED <<routerVars, evalVars, sampleVars, askVars>>

AppendTruth(f) ==
    /\ score_pc = "input"
    /\ ntruth < MaxTruthFrags
    /\ ground_truth' = ground_truth \o f
    /\ ntruth' = ntruth + 1
    /\ UNCHANGED <<prediction, npred, score_pc, norm_out, em_out, f1_out>>
    /\ UNCHANGED <<routerVars, evalVars, sampleVars, askVars>>

\* em_score = self.exact_match_score(prediction, ground_truth)
\* f1_score_val = self.f1_score(prediction, ground_truth)
ScorePair ==
    /\ score_pc = "input"
    /\ norm_out' = normalize_answer(prediction)
    /\ em_out' = exact_match_score(prediction, ground_truth)
    /\ f1_out' = f1_score(prediction, ground_truth)
    /\ score_pc' = "scored"
    /\ UNCHANGED <<prediction, ground_truth, npred, ntruth>>
    /\ UNCHANGED <<routerVars, evalVars, sampleVars, askVars>>

NextScore ==
    \/ \E f \in ScoreFragments : AppendPrediction(f)
    \/ \E f \in ScoreFragments : AppendTruth(f)
    \/ ScorePair

---------------------------------------------------------------------------
(* backend/evaluate.py: evaluate_sample and evaluate_dataset *)

\* the outcome of self.qa_pipeline(question=..., context=...): the call raises,
\* or returns a dict with the keys answer and score
ModelFailure == [ok |-> FALSE]
ModelResult(answer, score) == [ok |-> TRUE, answer |-> answer, score |-> score]

\* evaluate_sample: the dict returned for one sample, given the outcome of the
\* model call and the time measured
evaluate_sample(truth, outcome, elapsed) ==
    IF outcome.ok
    THEN [prediction     |-> outcome.answer,
          ground_truth   |-> truth,
          exact_match    |-> exact_match_score(outcome.answer, truth),
          f1_score       |-> f1_score(outcome.answer, truth),
          confidence     |-> outcome.score,
          inference_time |-> elapsed,
          success        |-> TRUE]
    ELSE [prediction     |-> <<>>,
          ground_truth   |-> truth,
          exact_match    |-> 0,
          f1_score       |-> <<0, 1>>,
          confidence     |-> <<0, 1>>,
          inference_time |-> elapsed,
          success        |-> FALSE,
          error          |-> "str(e)"]

\* sample['answer']['text'] if isinstance(sample['answer'], dict) else sample['answer']
AnswerText(sample) ==
    IF sample.answer.type = "dict" THEN sample.answer.text ELSE sample.answer.value

\* a plausible slip: an empty dataset is reported as fully successful
MeanOrOne(total, n) ==
    IF n # 0 THEN FloatDiv(total, <<n, 1>>) ELSE <<1, 1>>

\* total / len(dataset) if dataset else 0
MeanOrZero(total, n) ==
    IF n # 0 THEN FloatDiv(total, <<n, 1>>) ELSE <<0, 1>>

\* a plausible slip: the means are taken over the successful samples only
AggregateMetricsOverSuccessful(t_em, t_f1, t_time, successful, n) ==
    [exact_match            |-> MeanOrZero(<<t_em, 1>>, successful),
     f1_score               |-> MeanOrZero(t_f1, successful),
     average_inference_time |-> MeanOrZero(<<t_time, 1>>, n),
     success_rate           |-> MeanOrZero(<<successful, 1>>, n)]

\* the dict metrics of evaluate_dataset
AggregateMetrics(t_em, t_f1, t_time, successful, n) ==
    [exact_match            |-> MeanOrZero(<<t_em, 1>>, n),
     f1_score               |-> MeanOrZero(t_f1, n),
     average_inference_time |-> MeanOrZero(<<t_time, 1>>, n),
     success_rate           |-> MeanOrZero(<<successful, 1>>, n)]

\* the locals of evaluate_dataset before the loop
LoopStart ==
    [results |-> <<>>, total_em |-> 0, total_f1 |-> <<0, 1>>, total_time |-> 0,
     successful_predictions |-> 0]

\* a plausible slip: total_f1 = result['f1_score'] in the place of +=, so that
\* the total is the score of the last successful sample
LoopStepAssigns(acc, result) ==
    [results    |-> Append(acc.results, result),
     total_em   |-> IF result.success THEN acc.total_em + result.exact_match ELSE acc.total_em,
     total_f1   |-> IF result.success THEN result.f1_score ELSE acc.total_f1,
     total_time |-> acc.total_time + result.inference_time,
     successful_predictions |->
         IF result.success THEN acc.successful_predictions + 1 ELSE acc.successful_predictions]

\* the locals of evaluate_dataset after one more iteration, for the record
\* evaluate_sample returned
LoopStep(acc, result) ==
    [results    |-> Append(acc.results, result),
     total_em   |-> IF result.success THEN acc.total_em + result.exact_match ELSE acc.total_em,
     total_f1   |-> IF result.success THEN FloatAdd(acc.total_f1, result.f1_score) ELSE acc.total_f1,
     total_time |-> acc.total_time + result.inference_time,
     successful_predictions |->
         IF result.success THEN acc.successful_predictions + 1 ELSE acc.successful_predictions]

RECURSIVE LoopOver(_, _)
\* the locals of evaluate_dataset after the first i iterations of the loop,
\* records[k] being the record evaluate_sample returned for sample k
LoopOver(records, i) ==
    IF i = 0 THEN LoopStart
    ELSE LoopStep(LoopOver(records, i - 1), records[i])

\* the dict evaluate_dataset returns after a loop in which evaluate_sample
\* returned the given records, one per sample, in this order
DatasetResults(records) ==
    LET acc == LoopOver(records, Len(records))
    IN  [model_name       |-> "distilbert-base-cased-distilled-squad",
         dataset_size     |-> Len(records),
         metrics          |-> AggregateMetrics(acc.total_em, acc.total_f1, acc.total_time,
                                               acc.successful_predictions, Len(records)),
         detailed_results |-> acc.results]

\* the records evaluate_sample returns for the samples of a dataset,
\* outcomes[k] being the outcome of the model call of sample k and elapsed[k]
\* the time measured for it
SampleRecords(data, outcomes, elapsed) ==
    [k \in 1..Len(data) |-> evaluate_sample(AnswerText(data[k]), outcomes[k], elapsed[k])]

\* evaluate_dataset as a function of the dataset and of the outcomes of the
\* model calls: the dict returned
evaluate_dataset(data, outcomes, elapsed) ==
    DatasetResults(SampleRecords(data, outcomes, elapsed))

---------------------------------------------------------------------------
(* evaluate_dataset as a state machine: a dataset is assembled, the loop    *)
(* visits its samples one by one, the model call of each sample succeeding *)
(* or raising, and the metrics are computed after the loop.                *)

\* at most this many samples make up a dataset
MaxSamples == 3

\* the times one model call may be measured to take
ElapsedTimes == {1}

\* the samples datasets are assembled from: an answer given as a plain
\* string, one given as a dict with the keys text and answer_start, and the
\* empty answer load_squad_validation_sample substitutes.  The field type
\* of an answer is its Python type, which isinstance tests.
EvalSamples ==
    { [question |-> "How long do I have to return an item?", context |-> "returns",
       answer |-> [type |-> "str", value |-> ThirtyDays]],
      [question |-> "How long do I have to return an item?", context |-> "returns",
       answer |-> [type |-> "dict", text |-> ThirtyDaysInWords, answer_start |-> 0]],
      [question |-> "", context |-> "",
       answer |-> [type |-> "str", value |-> <<>>]] }

\* the answers the model may give
ModelAnswers == { <<"T", "h", "e", " ", "3", "0", " ", "d", "a", "y", "s", "!">>, <<"3", "0">> }

\* the confidence the model may report
ModelScores == { <<9, 10>> }

\* the value of evaluation_results while evaluate_dataset has not returned
NotReturned == [dataset_size |-> -1]

EvalInit ==
    /\ dataset = <<>>
    /\ eval_pc = "input"
    /\ results = <<>>
    /\ total_em = 0
    /\ total_f1 = <<0, 1>>
    /\ total_time = 0
    /\ successful_predictions = 0
    /\ evaluation_results = NotReturned
    /\ model_calls = <<>>

\* the caller extends the dataset it is about to evaluate
AddSample(sample) ==
    /\ eval_pc = "input"
    /\ Len(dataset) < MaxSamples
    /\ dataset' = Append(dataset, sample)
    /\ UNCHANGED <<eval_pc, results, total_em, total_f1, total_time,
                   successful_predictions, evaluation_results, model_calls>>
    /\ UNCHANGED <<routerVars, scoreVars, sampleVars, askVars>>

\* evaluate_dataset is entered: the locals are initialised
EnterEvaluateDataset ==
    /\ eval_pc = "input"
    /\ eval_pc' = "loop"
    /\ results' = <<>>
    /\ total_em' = 0
    /\ total_f1' = <<0, 1>>
    /\ total_time' = 0
    /\ successful_predictions' = 0
    /\ UNCHANGED <<dataset, evaluation_results, model_calls>>
    /\ UNCHANGED <<routerVars, scoreVars, sampleVars, askVars>>

\* a plausible slip: the error of the model call is not caught, so that the
\* first failing sample ends evaluate_dataset with an exception
LoopBodyAbortsOnFailure(outcome, elapsed) ==
    /\ eval_pc = "loop"
    /\ Len(results) < Len(dataset)
    /\ IF outcome.ok
       THEN LET sample == dataset[Len(results) + 1]
                result == [prediction     |-> outcome.answer,
                           ground_truth   |-> AnswerText(sample),
                           exact_match    |-> exact_match_score(outcome.answer, AnswerText(sample)),
                           f1_score       |-> f1_score(outcome.answer, AnswerText(sample)),
                           confidence     |-> outcome.score,
                           inference_time |-> elapsed,
                           success        |-> TRUE]
            IN  /\ results' = Append(results, result)
                /\ total_em' = total_em + result.exact_match
                /\ total_f1' = FloatAdd(total_f1, result.f1_score)
                /\ successful_predictions' = successful_predictions + 1
                /\ total_time' = total_time + elapsed
                /\ model_calls' = Append(model_calls, outcome)
                /\ UNCHANGED eval_pc
       ELSE /\ eval_pc' = "raised"
            /\ model_calls' = Append(model_calls, outcome)
            /\ UNCHANGED <<results, total_em, total_f1, total_time, successful_predictions>>
    /\ UNCHANGED <<dataset, evaluation_results>>
    /\ UNCHANGED <<routerVars, scoreVars, sampleVars, askVars>>

\* a plausible slip: successful_predictions += result['exact_match'], so that
\* only the exact matches are counted as successful
LoopBodyCountsMatches(outcome, elapsed) ==
    /\ eval_pc = "loop"
    /\ Len(results) < Len(dataset)
    /\ LET sample == dataset[Len(results) + 1]
           result == evaluate_sample(AnswerText(sample), outcome, elapsed)
       IN  /\ results' = Append(results, result)
           /\ IF result.success
              THEN /\ total_em' = total_em + result.exact_match
                   /\ total_f1' = FloatAdd(total_f1, result.f1_score)
                   /\ successful_predictions' = successful_predictions + result.exact_match
              ELSE UNCHANGED <<total_em, total_f1, successful_predictions>>
           /\ total_time' = total_time + result.inference_time
    /\ model_calls' = Append(model_calls, outcome)
    /\ UNCHANGED <<dataset, eval_pc, evaluation_results>>
    /\ UNCHANGED <<routerVars, scoreVars, sampleVars, askVars>>

\* one iteration of the loop over the dataset, the model call having the given outcome
LoopBody(outcome, elapsed) ==
    /\ eval_pc = "loop"
    /\ Len(results) < Len(dataset)
    /\ LET sample == dataset[Len(results) + 1]
           result == evaluate_sample(AnswerText(sample), outcome, elapsed)
       IN  /\ results' = Append(results, result)
           /\ IF result.success
              THEN /\ total_em' = total_em + result.exact_match
                   /\ total_f1' = FloatAdd(total_f1, result.f1_score)
                   /\ successful_predictions' = successful_predictions + 1
              ELSE UNCHANGED <<total_em, total_f1, successful_predictions>>
           /\ total_time' = total_time + result.inference_time
    /\ model_calls' = Append(model_calls, outcome)
    /\ UNCHANGED <<dataset, eval_pc, evaluation_results>>
    /\ UNCHANGED <<routerVars, scoreVars, sampleVars, askVars>>

\* the model call of the current sample returns an answer
SampleSucceeds ==
    \E answer \in ModelAnswers, score \in ModelScores, elapsed \in ElapsedTimes :
        LoopBody(ModelResult(answer, score), elapsed)

\* the model call of the current sample raises
SampleFails ==
    \E elapsed \in ElapsedTimes : LoopBody(ModelFailure, elapsed)

\* the loop is over: the metrics are computed and the dict is returned
ReturnResults ==
    /\ eval_pc = "loop"
    /\ Len(results) = Len(dataset)
    /\ evaluation_results' =
          [model_name       |-> "distilbert-base-cased-distilled-squad",
           dataset_size     |-> Len(dataset),
           metrics          |-> AggregateMetrics(total_em, total_f1, total_time,
                                                 successful_predictions, Len(dataset)),
           detailed_results |-> results]
    /\ eval_pc' = "done"
    /\ UNCHANGED <<dataset, results, total_em, total_f1, total_time,
                   successful_predictions, model_calls>>
    /\ UNCHANGED <<routerVars, scoreVars, sampleVars, askVars>>

NextEval ==
    \/ \E sample \in EvalSamples : AddSample(sample)
    \/ EnterEvaluateDataset
    \/ SampleSucceeds
    \/ SampleFails
    \/ ReturnResults

---------------------------------------------------------------------------
(* evaluate_sample as a state machine: a prediction and a ground truth are *)
(* assembled from pieces, and evaluate_sample is called once, its model    *)
(* call returning the prediction or raising.                               *)

\* the value of sample_record while evaluate_sample has not returned
NoRecord == [success |-> FALSE, returned |-> FALSE]

SampleInit == sample_record = NoRecord

\* evaluate_sample returns, the model call having answered prediction
EvaluateSampleReturns ==
    /\ score_pc = "input"
    /\ \E score \in ModelScores, elapsed \in ElapsedTimes :
          sample_record' = evaluate_sample(ground_truth, ModelResult(prediction, score), elapsed)
    /\ score_pc' = "evaluated"
    /\ UNCHANGED <<prediction, ground_truth, npred, ntruth, norm_out, em_out, f1_out>>
    /\ UNCHANGED <<routerVars, evalVars, askVars>>

\* evaluate_sample returns, the model call having raised
EvaluateSampleFails ==
    /\ score_pc = "input"
    /\ \E elapsed \in ElapsedTimes :
          sample_record' = evaluate_sample(ground_truth, ModelFailure, elapsed)
    /\ score_pc' = "failed"
    /\ UNCHANGED <<prediction, ground_truth, npred, ntruth, norm_out, em_out, f1_out>>
    /\ UNCHANGED <<routerVars, evalVars, askVars>>

NextSample ==
    \/ \E f \in ScoreFragments : AppendPrediction(f)
    \/ \E f \in ScoreFragments : AppendTruth(f)
    \/ EvaluateSampleReturns
    \/ EvaluateSampleFails

---------------------------------------------------------------------------
(* backend/main.py: get_fallback_answer and ask_question *)

FALLBACK_RESPONSES ==
    [category \in Categories |->
    IF category = "returns" THEN
        "You can return items within 30 days of purchase. Items must be in original condition. Refunds take 5-7 business days to process."
    ELSE IF category = "shipping" THEN
        "We offer free standard shipping on orders over $50 (3-5 days) and express shipping for $15.99 (1-2 days)."
    ELSE IF category = "payment" THEN
        "We accept major credit cards, PayPal, Apple Pay, and Google Pay through our secure checkout system."
    ELSE IF category = "products" THEN
        "All products come with a 1-year warranty. Electronics have a 30-day satisfaction guarantee."
    ELSE IF category = "account" THEN
        "Create an account for order tracking, faster checkout, and exclusive deals. Use 'Forgot Password' if needed."
    ELSE
        "Sign up for our newsletter for 10% off your first order. Student discounts available with .edu email."]

\* the answer of the else branch of get_fallback_answer
GeneralAnswer == "I'm currently having technical difficulties, but I'd be happy to help! For immediate assistance, please contact our support team."

\* a plausible slip: the word lists of "payment" and "products" are exchanged
FallbackChainExchanged ==
    << [category |-> "returns",    words |-> << <<"r", "e", "t", "u", "r", "n">>, <<"r", "e", "f", "u", "n", "d">>, <<"e", "x", "c", "h", "a", "n", "g", "e">> >>],
       [category |-> "shipping",   words |-> << <<"s", "h", "i", "p">>, <<"d", "e", "l", "i", "v", "e", "r", "y">>, <<"t", "r", "a", "c", "k">> >>],
       [category |-> "payment",    words |-> << <<"w", "a", "r", "r", "a", "n", "t", "y">>, <<"g", "u", "a", "r", "a", "n", "t", "e", "e">> >>],
       [category |-> "products",   words |-> << <<"p", "a", "y", "m", "e", "n", "t">>, <<"p", "a", "y">>, <<"c", "a", "r", "d">>, <<"p", "a", "y", "p", "a", "l">> >>],
       [category |-> "account",    words |-> << <<"a", "c", "c", "o", "u", "n", "t">>, <<"l", "o", "g", "i", "n">>, <<"p", "a", "s", "s", "w", "o", "r", "d">> >>],
       [category |-> "promotions", words |-> << <<"d", "i", "s", "c", "o", "u", "n", "t">>, <<"c", "o", "u", "p", "o", "n">>, <<"s", "a", "l", "e">> >>] >>

\* the if/elif chain of get_fallback_answer: the branches in their order, each
\* with the words it looks for and the category it answers for
FallbackChain ==
    << [category |-> "returns",    words |-> << <<"r", "e", "t", "u", "r", "n">>, <<"r", "e", "f", "u", "n", "d">>, <<"e", "x", "c", "h", "a", "n", "g", "e">> >>],
       [category |-> "shipping",   words |-> << <<"s", "h", "i", "p">>, <<"d", "e", "l", "i", "v", "e", "r", "y">>, <<"t", "r", "a", "c", "k">> >>],
       [category |-> "payment",    words |-> << <<"p", "a", "y", "m", "e", "n", "t">>, <<"p", "a", "y">>, <<"c", "a", "r", "d">>, <<"p", "a", "y", "p", "a", "l">> >>],
       [category |-> "products",   words |-> << <<"w", "a", "r", "r", "a", "n", "t", "y">>, <<"g", "u", "a", "r", "a", "n", "t", "e", "e">> >>],
       [category |-> "account",    words |-> << <<"a", "c", "c", "o", "u", "n", "t">>, <<"l", "o", "g", "i", "n">>, <<"p", "a", "s", "s", "w", "o", "r", "d">> >>],
       [category |-> "promotions", words |-> << <<"d", "i", "s", "c", "o", "u", "n", "t">>, <<"c", "o", "u", "p", "o", "n">>, <<"s", "a", "l", "e">> >>] >>

\* any(word in question_lower for word in words)
AnyWordIn(question_lower, words) ==
    \E j \in 1..Len(words) : Contains(question_lower, words[j])

RECURSIVE FirstBranch(_, _)
\* the index of the first branch of the chain, from branch i on, whose test
\* holds; 0 if the else branch is taken
FirstBranch(question_lower, i) ==
    IF i > Len(FallbackChain) THEN 0
    ELSE IF AnyWordIn(question_lower, FallbackChain[i].words) THEN i
    ELSE FirstBranch(question_lower, i + 1)

\* get_fallback_answer: the outcome of one call.  FALLBACK_RESPONSES[category]
\* raises KeyError when category is no key of the dict.
get_fallback_answer(q) ==
    LET b == FirstBranch(Lower(q), 1)
    IN  IF b = 0
        THEN [raised |-> FALSE, answer |-> GeneralAnswer, category |-> "general"]
        ELSE IF FallbackChain[b].category \in DOMAIN FALLBACK_RESPONSES
        THEN [raised |-> FALSE, answer |-> FALLBACK_RESPONSES[FallbackChain[b].category],
              category |-> FallbackChain[b].category]
        ELSE [raised |-> TRUE, answer |-> "", category |-> ""]

\* the value of response while the request is not answered
NoResponse == [status |-> 0]

\* raise HTTPException(status_code=500, detail="Service temporarily unavailable")
Http500 == [status |-> 500, detail |-> "Service temporarily unavailable"]

\* the request contexts that are longer than 200 characters
LongRequestContexts == {}

\* context[:200] + "..." if len(context) > 200 else context; every passage of
\* the knowledge base is longer than 200 characters
ContextUsed(context) ==
    IF context \in {ECOMMERCE_CONTEXTS[c] : c \in Categories} \cup LongRequestContexts
    THEN <<"context[:200]", context, "...">>
    ELSE <<context>>

\* the except branch of ask_question: the fallback answer with confidence 0.5,
\* or HTTP 500 when the fallback itself raises
ErrorFallback(q) ==
    LET fb == get_fallback_answer(q)
    IN  IF fb.raised
        THEN [response |-> Http500, category |-> ""]
        ELSE [response |-> [status |-> 200, answer |-> fb.answer, confidence |-> <<1, 2>>,
                            context_used |-> <<"Error fallback response">>],
              category |-> fb.category]

\* a plausible slip: an error of the model call is not answered by the
\* fallback but ends the request with HTTP 500
ask_question_propagates(loaded, req_context, q, outcome) ==
    IF ~loaded
    THEN LET fb == get_fallback_answer(q)
         IN  IF fb.raised THEN ErrorFallback(q) @@ [called |-> FALSE]
             ELSE [response |-> [status |-> 200, answer |-> fb.answer, confidence |-> <<4, 5>>,
                                 context_used |-> <<"Fallback response for ", fb.category>>],
                   category |-> fb.category, called |-> FALSE]
    ELSE IF outcome.ok
         THEN [response |-> [status |-> 200, answer |-> outcome.answer,
                             confidence |-> outcome.score,
                             context_used |-> <<"context">>],
               category |-> "", called |-> TRUE]
         ELSE [response |-> Http500, category |-> "", called |-> TRUE]

\* ask_question: the response to one request, the category the handler
\* assigned and whether the model was called; outcome is the outcome of the
\* model call if there is one.  response_time and timestamp, which come from
\* the clock and enter nothing else, are left out.
ask_question(loaded, req_context, q, outcome) ==
    IF ~loaded
    THEN LET fb == get_fallback_answer(q)
         IN  IF fb.raised THEN ErrorFallback(q) @@ [called |-> FALSE]
             ELSE [response |-> [status |-> 200, answer |-> fb.answer, confidence |-> <<4, 5>>,
                                 context_used |-> <<"Fallback response for ", fb.category>>],
                   category |-> fb.category, called |-> FALSE]
    ELSE LET use_request == req_context # <<>> /\ req_context[1] # ""
             routed == find_best_context(q)
         IN  IF ~use_request /\ routed.raised
             THEN ErrorFallback(q) @@ [called |-> FALSE]
             ELSE LET context == IF use_request THEN req_context[1] ELSE routed.value
                  IN  IF outcome.ok
                      THEN [response |-> [status |-> 200, answer |-> outcome.answer,
                                          confidence |-> outcome.score,
                                          context_used |-> ContextUsed(context)],
                            category |-> "", called |-> TRUE]
                      ELSE ErrorFallback(q) @@ [called |-> TRUE]

---------------------------------------------------------------------------
(* ask_question as a state machine: the model is loaded or not when the    *)
(* module is imported, a question is assembled from fragments and one      *)
(* request is answered.                                                    *)

\* the pieces the questions of a request are assembled from: words both
\* functions look for, a word only the router looks for, pieces that form a
\* keyword across a fragment border, a blank and a word that holds no keyword
AskFragments ==
    { <<"r", "e", "t", "u", "r", "n">>,
      <<"s", "h", "i", "p">>,
      <<"p", "i", "n", "g">>,
      <<"a", "r", "r", "i", "v", "e">>,
      <<"r", "e", "f", "u", "n", "d">>,
      <<"p", "a", "y">>,
      <<"c", "a", "r", "d">>,
      <<"w", "a", "r", "r", "a", "n", "t", "y">>,
      <<"s", "a", "l", "e">>,
      <<" ">>,
      <<"H", "e", "l", "l", "o">> }

\* request.context: absent, empty, or a passage of the caller
RequestContexts == { <<>>, <<"">>, <<"Orders placed before noon leave the same day.">> }

\* the answers the model may give to a request
AskModelAnswers == {"30 days"}

AskInit ==
    /\ model_loaded \in BOOLEAN
    /\ request_context \in RequestContexts
    /\ ask_pc = "input"
    /\ ask_model_call = <<>>
    /\ ask_category = ""
    /\ response = NoResponse

\* one request POST /ask, the model call (if any) having the given outcome
AskQuestion(outcome) ==
    /\ ask_pc = "input"
    /\ LET r == ask_question(model_loaded, request_context, question, outcome)
       IN  /\ response' = r.response
           /\ ask_category' = r.category
           /\ ask_model_call' = IF r.called THEN <<outcome>> ELSE <<>>
    /\ ask_pc' = "responded"
    /\ UNCHANGED <<model_loaded, request_context>>
    /\ UNCHANGED <<routerVars, scoreVars, evalVars, sampleVars>>

\* a request whose model call, if there is one, returns an answer
AskModelAnswers_Step ==
    \E answer \in AskModelAnswers, score \in ModelScores :
        AskQuestion(ModelResult(answer, score))

\* a request whose model call, if there is one, raises
AskModelFails_Step == AskQuestion(ModelFailure)

NextAsk ==
    \/ \E f \in AskFragments : AppendFragment(f)
    \/ AskModelAnswers_Step
    \/ AskModelFails_Step

---------------------------------------------------------------------------
(* Specifications *)

\* the scorer at rest, for the specifications that do not exercise it
ScoreIdle ==
    /\ prediction = <<>> /\ ground_truth = <<>> /\ npred = 0 /\ ntruth = 0
    /\ score_pc = "input" /\ norm_out = <<>> /\ em_out = 0 /\ f1_out = <<0, 1>>

\* the request handler at rest, for the specifications that do not exercise it
AskIdle ==
    /\ model_loaded = FALSE /\ request_context = <<>> /\ ask_pc = "input"
    /\ ask_model_call = <<>> /\ ask_category = "" /\ response = NoResponse

InitRouter == RouterInit /\ ScoreIdle /\ EvalInit /\ SampleInit /\ AskIdle
InitNormalize == RouterInit /\ NormalizeInit /\ EvalInit /\ SampleInit /\ AskIdle
InitScore == RouterInit /\ ScoreInit /\ EvalInit /\ SampleInit /\ AskIdle
InitEval == RouterInit /\ ScoreIdle /\ EvalInit /\ SampleInit /\ AskIdle
InitSample == RouterInit /\ ScoreInit /\ EvalInit /\ SampleInit /\ AskIdle
InitAsk == RouterInit /\ ScoreIdle /\ EvalInit /\ SampleInit /\ AskInit

\* the router: questions assembled from fragments, one call of find_best_context
SpecRouter == InitRouter /\ [][NextRouter]_vars

\* the normalizer: strings assembled from characters, one call of normalize_answer
SpecNormalize == InitNormalize /\ [][NextNormalize]_vars

\* the scorer: pairs assembled from pieces, one call of each scoring function
SpecScore == InitScore /\ [][NextScore]_vars

\* the evaluation loop over an assembled dataset
SpecEval == InitEval /\ [][NextEval]_vars

\* evaluate_sample on pairs assembled from pieces, the model call returning
\* the prediction or raising
SpecSample == InitSample /\ [][NextSample]_vars

\* the request handler: questions assembled from fragments, one request
SpecAsk == InitAsk /\ [][NextAsk]_vars

\* the evaluation loop, once entered, runs on: evaluate_dataset is sequential
\* code, a pending model call does not hang (it returns, or at the latest
\* raises), and the statements after the loop always run.  SampleFails is
\* enabled exactly when SampleSucceeds is, and any step of either moves the
\* loop on, so that weak fairness of SampleFails forbids stopping inside the
\* loop without forcing any call to fail.
SpecEvalFair ==
    /\ InitEval
    /\ [][NextEval]_vars
    /\ WF_vars(SampleFails)
    /\ WF_vars(ReturnResults)

---------------------------------------------------------------------------
(* Properties of the router (SpecRouter) *)

\* the fixed set and order of the categories, as the knowledge base declares them
FixedOrder == <<"returns", "shipping", "payment", "products", "account", "promotions">>
FixedCategories == {"returns", "shipping", "payment", "products", "account", "promotions"}
PositionOf(c) == CHOOSE i \in 1..Len(FixedOrder) : FixedOrder[i] = c

\* the keywords of category c that occur in the lower-cased question ql
KeywordsFound(ql, c) ==
    {j \in 1..Len(keywords[c]) : Contains(ql, keywords[c][j])}

\* the number of keywords of each category that occur in the lower-cased question
FoundCounts ==
    LET ql == Lower(question)
    IN  [c \in FixedCategories |-> Cardinality(KeywordsFound(ql, c))]

\* keyword j of category c appears in the keyword list of no other category
UniqueKeyword(c, j) ==
    \A d \in FixedCategories \ {c} :
        \A k \in 1..Len(keywords[d]) : keywords[d][k] # keywords[c][j]

\* C1: for every question, the empty one included, find_best_context does not
\* raise, resolves to exactly one category of the fixed set and returns the
\* passage of that category
C1_ResolvesToOneCategory ==
    /\ router_pc # "raised"
    /\ router_pc = "returned" =>
          /\ best_category \in FixedCategories
          /\ context_out = ECOMMERCE_CONTEXTS[best_category]
          /\ Cardinality({c \in FixedCategories : ECOMMERCE_CONTEXTS[c] = context_out}) = 1

\* the empty question was routed
C1_Witness ==
    /\ router_pc = "returned"
    /\ question = <<>>
    /\ context_out = ECOMMERCE_CONTEXTS["returns"]

\* C2 as stated: a question that contains a keyword unique to one category is
\* routed to that category
C2_UniqueKeywordSelects ==
    router_pc = "returned" =>
        LET ql == Lower(question)
        IN  \A c \in FixedCategories :
                (\E j \in KeywordsFound(ql, c) : UniqueKeyword(c, j)) => best_category = c

\* C2 as amended: a question that contains a keyword unique to one category
\* and no keyword of any other category is routed to that category
C2_OnlyCategoryFoundSelects ==
    router_pc = "returned" =>
        LET ql == Lower(question)
            counts == FoundCounts
        IN  \A c \in FixedCategories :
                (/\ \E j \in KeywordsFound(ql, c) : UniqueKeyword(c, j)
                 /\ \A d \in FixedCategories \ {c} : counts[d] = 0)
                => best_category = c

\* a question with keywords of "shipping" only, none of them the first of
\* its list, was routed to "shipping"
C2_Witness ==
    /\ router_pc = "returned"
    /\ KeywordsFound(Lower(question), "shipping") # {}
    /\ 1 \notin KeywordsFound(Lower(question), "shipping")
    /\ \A d \in FixedCategories \ {"shipping"} : FoundCounts[d] = 0
    /\ best_category = "shipping"

\* C3: a question in which no keyword of any category occurs, the empty
\* question included, is routed to the default category "returns"
C3_NoKeywordGivesDefault ==
    (/\ router_pc # "input"
     /\ LET counts == FoundCounts IN \A c \in FixedCategories : counts[c] = 0)
    => /\ router_pc = "returned"
       /\ best_category = "returns"
       /\ context_out = ECOMMERCE_CONTEXTS["returns"]

\* a non-empty question without any keyword was routed
C3_Witness ==
    /\ router_pc = "returned"
    /\ question # <<>>
    /\ \A c \in FixedCategories : FoundCounts[c] = 0
    /\ best_category = "returns"

\* C4: when some category has a nonzero score, the selected category has the
\* maximum score and is the first in the fixed order among those that have it
C4_MaxScoreFirstDeclared ==
    router_pc = "returned" =>
        LET counts == FoundCounts
        IN  (\E c \in FixedCategories : counts[c] > 0)
            => /\ best_category \in FixedCategories
               /\ \A c \in FixedCategories : counts[c] <= counts[best_category]
               /\ \A c \in FixedCategories :
                     counts[c] = counts[best_category]
                     => PositionOf(best_category) <= PositionOf(c)

\* a question on which two categories share the maximum nonzero score, the
\* selected one being neither the first nor the last category
C4_Witness ==
    /\ router_pc = "returned"
    /\ best_category \in {"shipping", "payment", "products", "account"}
    /\ LET counts == FoundCounts
       IN  /\ counts[best_category] >= 1
           /\ \E c \in FixedCategories \ {best_category} : counts[c] = counts[best_category]

---------------------------------------------------------------------------
(* Properties of the normalizer (SpecNormalize) *)

\* the whole words the normalizer removes
ArticleWords == { <<"a">>, <<"a", "n">>, <<"t", "h", "e">> }

\* the pipeline of the claim, word by word: fold the case, delete the
\* punctuation, cut the text into its whitespace-separated words, drop the
\* words that are articles and join the rest by single blanks
PipelineByWords(s) ==
    Join(SelectSeq(Split(SelectSeq(Lower(s), LAMBDA ch : ch \notin Punctuation)),
                   LAMBDA w : w \notin ArticleWords))

ShippingCostsNormalized == <<"s", "h", "i", "p", "p", "i", "n", "g", " ", "c", "o", "s", "t", "s", " ", "1", "5", "9", "9">>

\* C5: normalize_answer(s) is the result of lower-casing, then deleting the
\* punctuation, then removing the whole words a, an, the, then collapsing
\* and trimming the whitespace; "The Shipping costs $15.99!" gives
\* "shipping costs 1599"
C5_NormalizePipeline ==
    score_pc = "normalized" =>
        /\ norm_out = PipelineByWords(prediction)
        /\ prediction = ShippingCosts => norm_out = ShippingCostsNormalized

\* the example of the claim was normalized
C5_Witness ==
    /\ score_pc = "normalized"
    /\ prediction = ShippingCosts
    /\ norm_out = ShippingCostsNormalized

---------------------------------------------------------------------------
(* Properties of the scorer (SpecScore) *)

\* C6: exact_match_score is 1 if and only if the two normalized strings are
\* the same string and 0 otherwise; ("30 days", "30 days") gives 1 and
\* ("30 days", "thirty days") gives 0
C6_ExactMatchIffNormalizedEqual ==
    score_pc = "scored" =>
        /\ em_out \in {0, 1}
        /\ em_out = 1 <=> normalize_answer(prediction) = normalize_answer(ground_truth)
        /\ (prediction = ThirtyDays /\ ground_truth = ThirtyDays) => em_out = 1
        /\ (prediction = ThirtyDays /\ ground_truth = ThirtyDaysInWords) => em_out = 0

\* two different strings with the same normal form were scored 1
C6_Witness ==
    /\ score_pc = "scored"
    /\ prediction # ground_truth
    /\ prediction # <<>>
    /\ norm_out # <<>>
    /\ em_out = 1

RECURSIVE RemoveOne(_, _)
\* tokens without the first occurrence of w
RemoveOne(tokens, w) ==
    IF tokens = <<>> THEN <<>>
    ELSE IF Head(tokens) = w THEN Tail(tokens)
    ELSE <<Head(tokens)>> \o RemoveOne(Tail(tokens), w)

RECURSIVE BagOverlap(_, _)
\* size of the bag intersection of two token sequences: every token of p is
\* paired with one still unpaired equal token of t, if there is one
BagOverlap(p, t) ==
    IF p = <<>> THEN 0
    ELSE IF \E i \in 1..Len(t) : t[i] = Head(p)
         THEN 1 + BagOverlap(Tail(p), RemoveOne(t, Head(p)))
         ELSE BagOverlap(Tail(p), t)

PredTokens == Split(normalize_answer(prediction))
TruthTokens == Split(normalize_answer(ground_truth))

\* C7: f1_score is the reference F1 over the whitespace tokens of the two
\* normalized strings: with an empty token sequence, 1 if both are empty and
\* 0 otherwise; else, with n the size of the bag intersection, 0 if n = 0 and
\* otherwise 2*p*r/(p+r) for p = n/|prediction tokens|, r = n/|truth tokens|
C7_F1IsReference ==
    score_pc = "scored" =>
        LET P == PredTokens
            T == TruthTokens
            n == BagOverlap(P, T)
        IN  /\ f1_out[2] > 0
            /\ IF Len(P) = 0 \/ Len(T) = 0
               THEN IF Len(P) = 0 /\ Len(T) = 0
                    THEN f1_out[1] = f1_out[2]
                    ELSE f1_out[1] = 0
               ELSE IF n = 0
                    THEN f1_out[1] = 0
                    ELSE LET p == FloatDiv(<<n, 1>>, <<Len(P), 1>>)
                             r == FloatDiv(<<n, 1>>, <<Len(T), 1>>)
                         IN  /\ f1_out = FloatDiv(FloatMul(FloatMul(<<2, 1>>, p), r), FloatAdd(p, r))
                             \* the float is the fraction 2pr/(p+r) of the exact p and r
                             \* up to the rounding of the five operations
                             /\ FracLeq(FracMul(<<2 * n, Len(P) + Len(T)>>, <<2^FloatBits - 4, 2^FloatBits>>), f1_out)
                             /\ FracLeq(f1_out, FracMul(<<2 * n, Len(P) + Len(T)>>, <<2^FloatBits + 4, 2^FloatBits>>))

\* a word that both sides repeat was counted twice, in a partial overlap
C7_Witness ==
    /\ score_pc = "scored"
    /\ BagOverlap(PredTokens, TruthTokens) = 2
    /\ Cardinality({PredTokens[i] : i \in 1..Len(PredTokens)}
                   \cap {TruthTokens[i] : i \in 1..Len(TruthTokens)}) = 1
    /\ FracLeq(<<79, 100>>, f1_out)
    /\ FracLeq(f1_out, <<81, 100>>)

\* C8 as stated: f1_score("the express shipping", "express shipping") is
\* strictly between 0 and 1
C8_PartialOverlap ==
    (score_pc = "scored" /\ prediction = TheExpressShipping /\ ground_truth = ExpressShipping)
    => (0 < f1_out[1] /\ f1_out[1] < f1_out[2])

\* C8 as amended: f1_score("the express shipping", "express shipping") is
\* exactly 1, the article being removed before the tokens are compared
C8_FullOverlap ==
    (score_pc = "scored" /\ prediction = TheExpressShipping /\ ground_truth = ExpressShipping)
    => f1_out = <<1, 1>>

\* the pair of the claim was scored
C8_Witness ==
    /\ score_pc = "scored"
    /\ prediction = TheExpressShipping
    /\ ground_truth = ExpressShipping
    /\ norm_out = ExpressShipping
    /\ f1_out[1] = f1_out[2]

---------------------------------------------------------------------------
(* Properties of the evaluation loop (SpecEval) *)

\* C9: on an empty dataset evaluate_dataset returns the metrics exact_match,
\* f1_score, average_inference_time and success_rate all 0, dataset_size 0
\* and no detailed results
C9_EmptyDatasetZeroMetrics ==
    (eval_pc = "done" /\ dataset = <<>>)
    => /\ evaluation_results.metrics.exact_match[1] = 0
       /\ evaluation_results.metrics.f1_score[1] = 0
       /\ evaluation_results.metrics.average_inference_time[1] = 0
       /\ evaluation_results.metrics.success_rate[1] = 0
       /\ evaluation_results.dataset_size = 0
       /\ evaluation_results.detailed_results = <<>>

\* evaluate_dataset returned on the empty dataset
C9_Witness ==
    /\ eval_pc = "done"
    /\ dataset = <<>>
    /\ evaluation_results.dataset_size = 0

\* the samples whose model call raised, among the first m
FailedCalls(m) == {i \in 1..m : ~model_calls[i].ok}

RECURSIVE SumEM(_)
\* sum of exact_match over the records of the first m samples whose model call returned
SumEM(m) ==
    IF m = 0 THEN 0
    ELSE SumEM(m - 1) + (IF model_calls[m].ok THEN results[m].exact_match ELSE 0)

RECURSIVE SumF1(_)
\* sum of f1_score over the records of the first m samples whose model call returned
SumF1(m) ==
    IF m = 0 THEN <<0, 1>>
    ELSE IF model_calls[m].ok THEN FloatAdd(SumF1(m - 1), results[m].f1_score)
    ELSE SumF1(m - 1)

\* the float a is the quotient of the division of the float t by the int d
FracIs(a, t, d) == a[2] > 0 /\ a = FloatDiv(t, <<d, 1>>)

\* C10: for N >= 1 samples of which k have a failing model call, the success
\* rate is (N-k)/N, every failed sample is recorded with exact_match 0,
\* f1_score 0 and success false and adds nothing to the two sums, and both
\* means are the sums over the successful samples divided by N
C10_FailedSamplesCountAsZero ==
    /\ eval_pc \in {"loop", "done"} =>
          /\ Len(model_calls) = Len(results)
          /\ \A i \in FailedCalls(Len(results)) :
                /\ results[i].exact_match = 0
                /\ results[i].f1_score[1] = 0
                /\ results[i].success = FALSE
          /\ total_em = SumEM(Len(results))
          /\ total_f1 = SumF1(Len(results))
          /\ successful_predictions = Len(results) - Cardinality(FailedCalls(Len(results)))
    /\ (eval_pc = "done" /\ Len(dataset) >= 1) =>
          LET N == Len(dataset)
              k == Cardinality(FailedCalls(N))
              m == evaluation_results.metrics
              f == SumF1(N)
          IN  /\ FracIs(m.success_rate, <<N - k, 1>>, N)
              /\ FracIs(m.exact_match, <<SumEM(N), 1>>, N)
              /\ FracIs(m.f1_score, f, N)

\* a batch of several samples with exactly one failing model call and both
\* sums nonzero was evaluated
C10_Witness ==
    /\ eval_pc = "done"
    /\ Len(dataset) >= 2
    /\ Cardinality(FailedCalls(Len(dataset))) = 1
    /\ total_em >= 1
    /\ total_f1[1] > total_em * total_f1[2]

\* what holds of the records at every point of the loop and after it: the
\* call has not ended in an exception, there is one record per visited
\* sample, in the order of the dataset, and the record of every sample whose
\* model call returned is scored from the answer of that call
C11_RecordsFollowDataset ==
    /\ eval_pc \in {"input", "loop", "done"}
    /\ eval_pc \in {"loop", "done"} =>
          /\ Len(results) <= Len(dataset)
          /\ Len(model_calls) = Len(results)
          /\ \A i \in 1..Len(results) :
                /\ results[i].ground_truth = AnswerText(dataset[i])
                /\ results[i].success = model_calls[i].ok
                /\ model_calls[i].ok =>
                      /\ results[i].prediction = model_calls[i].answer
                      /\ results[i].exact_match =
                            (IF normalize_answer(model_calls[i].answer)
                                   = normalize_answer(AnswerText(dataset[i])) THEN 1 ELSE 0)
                      /\ results[i].f1_score =
                            f1_score(model_calls[i].answer, AnswerText(dataset[i]))
    /\ eval_pc = "done" =>
          /\ Len(results) = Len(dataset)
          /\ evaluation_results.detailed_results = results

\* C11: a model failure never aborts the batch: for any pattern of failures
\* the loop ends after all N samples were visited, detailed_results holds one
\* record per sample in input order, and every sample after a failed one is
\* scored from its own model result
C11_FailureNeverAborts ==
    /\ []C11_RecordsFollowDataset
    /\ (eval_pc = "loop") ~> (eval_pc = "done")


\* a batch was evaluated to its end in which a failed sample is followed by
\* a sample that was scored 1
C11_Witness ==
    /\ eval_pc = "done"
    /\ Len(dataset) = MaxSamples
    /\ \E i \in 1..Len(results), j \in 1..Len(results) :
          /\ i < j
          /\ ~model_calls[i].ok
          /\ model_calls[j].ok
          /\ results[j].exact_match = 1

---------------------------------------------------------------------------
(* ask_question and get_fallback_answer *)

\* the request could not use the model: it is not loaded, or its call raised
ModelUnavailable ==
    \/ ~model_loaded
    \/ ask_model_call # <<>> /\ ~ask_model_call[1].ok

\* the static answers a fallback can give
FallbackAnswers == {FALLBACK_RESPONSES[c] : c \in FixedCategories} \cup {GeneralAnswer}

\* C12: in ask_question, if the model is not loaded or the model call raises,
\* the error is not propagated: the request is answered normally, with the
\* static answer get_fallback_answer chooses for the question; HTTP 500 is
\* answered only if the fallback selection itself fails
C12_ErrorsAnsweredByFallback ==
    ask_pc = "responded" =>
        LET fb == get_fallback_answer(question)
        IN  /\ response.status \in {200, 500}
            /\ response.status = 500 => fb.raised
            /\ ModelUnavailable =>
                  /\ response.status = 200
                  /\ response.answer = fb.answer
                  /\ response.answer \in FallbackAnswers
            /\ ~ModelUnavailable =>
                  /\ response.status = 200
                  /\ response.answer = ask_model_call[1].answer

\* the model was loaded, its call raised on a question about shipping, and
\* the request was answered with the static shipping answer
C12_Witness ==
    /\ ask_pc = "responded"
    /\ model_loaded
    /\ ask_model_call = <<ModelFailure>>
    /\ response.status = 200
    /\ response.answer = FALLBACK_RESPONSES["shipping"]
    /\ response.confidence = <<1, 2>>

\* C13 as stated: for every question, the category get_fallback_answer picks
\* is the category find_best_context selects for that question
C13_FallbackPicksRouterCategory ==
    (ask_pc = "responded" /\ ModelUnavailable) =>
        ask_category = find_best_context(question).best_category

\* C13 as amended: for every question in which keywords of the router are
\* found for exactly one category, find_best_context selects that category
\* and get_fallback_answer picks that category too, or "general" when none of
\* its own words is found
C13_FallbackAgreesOnSingleCategory ==
    (ask_pc = "responded" /\ ModelUnavailable) =>
        LET counts == FoundCounts
        IN  \A c \in FixedCategories :
                (/\ counts[c] > 0
                 /\ \A d \in FixedCategories \ {c} : counts[d] = 0)
                => /\ find_best_context(question).best_category = c
                   /\ ask_category \in {c, "general"}
                   /\ AnyWordIn(Lower(question), FallbackChain[PositionOf(c)].words)
                         => ask_category = c

\* a question with keywords of "products" only was answered by the fallback
\* for "products", the category the router selects
C13_Witness ==
    /\ ask_pc = "responded"
    /\ ModelUnavailable
    /\ ask_category = "products"
    /\ find_best_context(question).best_category = "products"
    /\ \A d \in FixedCategories \ {"products"} : FoundCounts[d] = 0

---------------------------------------------------------------------------
(* evaluate_sample *)

\* the fraction f lies in the closed interval [0, 1]
InUnitInterval(f) == f[2] > 0 /\ 0 <= f[1] /\ f[1] <= f[2]

\* C14: every record evaluate_sample returns, on the success path and on the
\* failure path, has exact_match in {0, 1} and f1_score in [0, 1]
C14_RecordScoresInRange ==
    /\ score_pc \in {"evaluated", "failed"} =>
          /\ sample_record.exact_match \in {0, 1}
          /\ InUnitInterval(sample_record.f1_score)
    /\ score_pc = "evaluated" => sample_record.success
    /\ score_pc = "failed" =>
          /\ ~sample_record.success
          /\ sample_record.exact_match = 0
          /\ sample_record.f1_score = <<0, 1>>

\* a record of the success path with a partial overlap: exact_match 0 and
\* f1_score strictly between 0 and 1
C14_Witness ==
    /\ score_pc = "evaluated"
    /\ sample_record.success
    /\ sample_record.exact_match = 0
    /\ 0 < sample_record.f1_score[1]
    /\ sample_record.f1_score[1] < sample_record.f1_score[2]

---------------------------------------------------------------------------
(* evaluate_dataset: order of the samples *)

\* the orders the n samples of a dataset can be processed in
Orders(n) == {p \in [1..n -> 1..n] : \A a, b \in 1..n : p[a] = p[b] => a = b}

\* the sequence seq taken in the order p
InOrder(seq, p) == [k \in 1..Len(seq) |-> seq[p[k]]]

\* the times measured for the samples of the finished run
ElapsedOfRun == [k \in 1..Len(results) |-> results[k].inference_time]

\* the order n, n-1, ..., 1
Reversed(n) == [k \in 1..n |-> n + 1 - k]

\* the dict evaluate_dataset returns when the samples of the finished run
\* are processed in the order p, every sample with the record it has
RunInOrder(p) == DatasetResults(InOrder(results, p))

\* the distance of the fractions a and b is at most the fraction t
FracNear(a, b, t) ==
    /\ FracLeq(a, FracAdd(b, t))
    /\ FracLeq(b, FracAdd(a, t))

\* the record of every sample is what evaluate_sample returns for the sample
\* and the outcome of its own model call, whatever came before it; so the
\* records of a run in another order are the same records in that order
\* (recomputed here for the reversed order)
RecordsIndependent ==
    /\ results = SampleRecords(dataset, model_calls, ElapsedOfRun)
    /\ LET p == Reversed(Len(dataset))
       IN  evaluate_dataset(InOrder(dataset, p), InOrder(model_calls, p), InOrder(ElapsedOfRun, p))
               = RunInOrder(p)

\* C15 as stated: processing the same samples in any other order gives the
\* same per-sample records and the same aggregate exact_match, f1_score and
\* success_rate
C15_SameAggregatesInAnyOrder ==
    eval_pc = "done" =>
        /\ RecordsIndependent
        /\ \A p \in Orders(Len(dataset)) :
              LET other == RunInOrder(p)
              IN  /\ other.detailed_results = InOrder(results, p)
                  /\ other.metrics.exact_match = evaluation_results.metrics.exact_match
                  /\ other.metrics.f1_score = evaluation_results.metrics.f1_score
                  /\ other.metrics.success_rate = evaluation_results.metrics.success_rate

\* C15 as amended: the record of a sample depends only on the sample and on
\* the outcome of its own model call, so that processing the same samples in
\* any other order gives the same per-sample records and the same aggregate
\* exact_match and success_rate; the aggregate f1_score, the mean of a float
\* sum taken in the order of the samples, is the same up to the rounding of
\* that sum (of at most N + 4 units in the last place of 1 for N samples)
C15_OrderIndependentUpToRounding ==
    eval_pc = "done" =>
        /\ evaluation_results = evaluate_dataset(dataset, model_calls, ElapsedOfRun)
        /\ RecordsIndependent
        /\ \A p \in Orders(Len(dataset)) :
              LET other == RunInOrder(p)
              IN  /\ other.detailed_results = InOrder(results, p)
                  /\ other.metrics.exact_match = evaluation_results.metrics.exact_match
                  /\ other.metrics.success_rate = evaluation_results.metrics.success_rate
                  /\ FracNear(other.metrics.f1_score, evaluation_results.metrics.f1_score,
                              <<Len(dataset) + 4, 2^FloatBits>>)

\* a finished run over samples with different records whose aggregate
\* f1_score comes out differently in another order
C15_Witness ==
    /\ eval_pc = "done"
    /\ Len(dataset) >= 3
    /\ \E a, b \in 1..Len(results) : results[a].f1_score # results[b].f1_score
    /\ \E p \in Orders(Len(dataset)) :
          RunInOrder(p).metrics.f1_score # evaluation_results.metrics.f1_score

---------------------------------------------------------------------------
(* exact_match_score against f1_score *)

\* C16: for all strings prediction and truth, exact_match_score = 1 implies
\* f1_score = 1, also when both strings normalize to the empty string; hence
\* exact_match <= f1_score for every scored pair
C16_ExactMatchImpliesFullF1 ==
    score_pc = "scored" =>
        /\ em_out \in {0, 1}
        /\ em_out = 1 => f1_out = <<1, 1>>
        /\ FracLeq(<<em_out, 1>>, f1_out)

\* two different strings that both normalize to the empty string were
\* scored: exact match 1 and f1 1
C16_Witness ==
    /\ score_pc = "scored"
    /\ prediction # <<>>
    /\ ground_truth # <<>>
    /\ prediction # ground_truth
    /\ normalize_answer(prediction) = <<>>
    /\ normalize_answer(ground_truth) = <<>>
    /\ em_out = 1
    /\ f1_out = <<1, 1>>

---------------------------------------------------------------------------
(* evaluate_dataset: the order of the totals *)

\* C17: throughout the loop of evaluate_dataset, after any number i of
\* processed samples with any pattern of model failures,
\* 0 <= total_em <= total_f1 <= successful_predictions <= i; consequently the
\* reported metrics satisfy 0 <= exact_match <= f1_score <= success_rate <= 1
C17_TotalsOrdered ==
    /\ eval_pc \in {"loop", "done"} =>
          /\ 0 <= total_em
          /\ FracLeq(<<total_em, 1>>, total_f1)
          /\ FracLeq(total_f1, <<successful_predictions, 1>>)
          /\ successful_predictions <= Len(results)
          /\ Len(results) = Len(model_calls)
    /\ eval_pc = "done" =>
          LET m == evaluation_results.metrics
          IN  /\ FracLeq(<<0, 1>>, m.exact_match)
              /\ FracLeq(m.exact_match, m.f1_score)
              /\ FracLeq(m.f1_score, m.success_rate)
              /\ FracLeq(m.success_rate, <<1, 1>>)

\* a finished run with a failed sample, an exact match and a partial
\* overlap: every inequality of the chain is strict
C17_Witness ==
    /\ eval_pc = "done"
    /\ \E i \in 1..Len(model_calls) : ~model_calls[i].ok
    /\ 0 < total_em
    /\ total_em * total_f1[2] < total_f1[1]
    /\ total_f1[1] < successful_predictions * total_f1[2]
    /\ successful_predictions < Len(results)
    /\ LET m == evaluation_results.metrics
       IN  /\ ~FracLeq(m.f1_score, m.exact_match)
           /\ ~FracLeq(m.success_rate, m.f1_score)
           /\ ~FracLeq(<<1, 1>>, m.success_rate)

---------------------------------------------------------------------------
(* normalize_answer: the shape of its output *)

UpperCaseLetters == {UpperCase[i] : i \in 1..Len(UpperCase)}

=============================================================================
